---- MODULE Spec2Model ----
(***************************************************************************)
(* Model of src/server.js: an Express application over four mongoose       *)
(* collections (Admin, PresaleEnd, ProgressBar, WalletAddress), a lazily   *)
(* opened connection (connectDB / isConnected) and a JWT guard.            *)
(*                                                                         *)
(* Every request handler is an async function: it runs atomically between  *)
(* two awaits and may be interleaved with other requests at each await.    *)
(* A request in flight occupies a slot of reqs; its pc names the await it  *)
(* is suspended at:                                                        *)
(*   "connect"  awaiting the mongoose.connect it invoked in connectDB      *)
(*   "handler"  connectDB has returned, the handler body runs next         *)
(*   "write"    the findOne has returned, the save / create runs next      *)
(*   "sent"     the handler has ended; status is the response's status     *)
(* A slot is free again once its response is sent.                         *)
(*                                                                         *)
(* Record fields and the elements of constant sets are listed in the order *)
(* TLC normalises them to.                                                 *)
(***************************************************************************)
EXTENDS Integers, Sequences, FiniteSets

\* ---------------------------------------------------------------- bounds
\* Requests in flight at once: in the specifications about
\* interleavings (MaxRacing) and in the others (MaxInFlight).
MaxInFlight == 1
MaxRacing == 2
MaxNow == 1
MaxDials == 2
MaxSalt == 2

\* ------------------------------------------------------ program constants
MinPasswordLength == 8
ExpiresIn == 3600
ClampLow == 0
ClampHigh == 100

\* ------------------------------------------------------------ environment
\* process.env.JWT_SECRET
JWT_SECRET == "jwt-secret"

\* A string is a sequence of one-character strings.
Str(n, c) == [i \in 1..n |-> c]

\* The values process.env.ADMIN_PASSWORD is drawn from: unset (the empty
\* sequence stands for undefined, both are falsy), 7 and 8 characters.
AdminPasswords == {Str(0, "p"), Str(MinPasswordLength - 1, "p"), Str(MinPasswordLength, "p")}

VARIABLES
    ADMIN_PASSWORD,   \* process.env.ADMIN_PASSWORD
    isConnected,      \* the module's connected flag (undefined is FALSE)
    dials,            \* number of mongoose.connect invocations so far
    dialFailed,       \* some mongoose.connect has rejected
    boot,             \* the module-load connectDB() call: "dialing", "done", "failed"
    crashed,          \* the process died on an unhandled rejection
    now,              \* the clock, in seconds
    Admin,            \* the collections, in insertion order
    PresaleEnd,
    ProgressBar,
    WalletAddress,
    issued,           \* the last token /api/authenticate returned
    reqs              \* per slot: a request in flight, or the last response sent

vars == <<ADMIN_PASSWORD, isConnected, dials, dialFailed, boot, crashed, now,
          Admin, PresaleEnd, ProgressBar, WalletAddress, issued, reqs>>

store == <<Admin, PresaleEnd, ProgressBar, WalletAddress>>

Slots == 1..MaxInFlight
RaceSlots == 1..MaxRacing
AllSlots == Slots \cup RaceSlots

\* ------------------------------------------------------------ JSON values
\* req.body fields: t is the JSON type, n a number, s a string.
Undefined == [n |-> 0, t |-> "undefined", s |-> <<>>]
Null == [n |-> 0, t |-> "null", s |-> <<>>]
Num(k) == [n |-> k, t |-> "number", s |-> <<>>]
Text(x) == [n |-> 0, t |-> "string", s |-> x]

\* JavaScript truthiness of a body field: undefined, null, 0 and "" are falsy.
Truthy(v) ==
    CASE v.t = "undefined" -> FALSE
      [] v.t = "null" -> FALSE
      [] v.t = "number" -> v.n # 0
      [] OTHER -> Len(v.s) > 0

\* ---------------------------------------------------------------- tokens
NoToken == [key |-> "", iat |-> 0, exp |-> 0]

\* SignToken with expiresIn: '2h'
SignTokenTwoHours(t) == [key |-> JWT_SECRET, iat |-> t, exp |-> t + 2 * ExpiresIn]

\* jwt.sign({ admin: true }, process.env.JWT_SECRET, { expiresIn: '1h' }) at time t
SignToken(t) == [key |-> JWT_SECRET, iat |-> t, exp |-> t + ExpiresIn]

\* jwt.verify(token, process.env.JWT_SECRET) at time t: TRUE when it returns,
\* FALSE when it throws (bad signature, or the clock has reached exp).
JwtVerify(token, t) == token.key = JWT_SECRET /\ t < token.exp

\* req.headers.authorization: parts is the number of parts split(' ') yields
\* (0 for a missing header), token the second part when there is one.
NoHeader == [token |-> NoToken, parts |-> 0]
SchemeOnly == [token |-> NoToken, parts |-> 1]
Bearer(tok) == [token |-> tok, parts |-> 2]

\* req.headers.authorization?.split(' ')[1]; NoToken is undefined or ''
HeaderToken(hdr) == IF hdr.parts >= 2 THEN hdr.token ELSE NoToken

\* authenticateJWT with next() reached from the catch block as well
authenticateJWTCatchFallsThrough(hdr, t) ==
    IF HeaderToken(hdr) = NoToken THEN 401 ELSE 200

\* The guard: 401 without a token, 403 when jwt.verify throws, else next()
\* (written 200 here).
authenticateJWT(hdr, t) ==
    LET token == HeaderToken(hdr)
    IN  IF token = NoToken THEN 401
        ELSE IF JwtVerify(token, t) THEN 200
        ELSE 403

\* --------------------------------------------------------------- requests
\* A slot's record: the request (route, authorization header, body field),
\* the handler's position and its local `record` / `existing` as the index
\* found, and once sent the response: status (0 when the handler ended
\* without responding), data when the body carries some (a record's value,
\* an address), lookup when the handler called Admin.findOne.
Idle == [hdr |-> NoHeader, route |-> "idle", pc |-> "idle", body |-> Undefined, found |-> 0,
         status |-> 0, has |-> FALSE, data |-> 0, lookup |-> FALSE]

NewReq(route, hdr, body) ==
    [Idle EXCEPT !.route = route, !.pc = "handler", !.hdr = hdr, !.body = body]

\* The response to request r, without data: the handler's locals are gone.
Reply(r, status) ==
    [Idle EXCEPT !.route = r.route, !.pc = "sent", !.status = status, !.lookup = r.lookup]

\* The response to request r with data in its body.
ReplyData(r, status, data) == [Reply(r, status) EXCEPT !.has = TRUE, !.data = data]

InFlight(r) == r.pc \in {"handler", "connect", "write"}

Alive == ~crashed

\* The lowest free slot: the slots are interchangeable.
FreeSlot(s) == ~InFlight(reqs[s]) /\ \A u \in AllSlots : u < s => InFlight(reqs[u])

\* The state once the module is loaded: connectDB() has been called at load
\* and its mongoose.connect is pending. The Admin collection is empty or
\* holds a record left uninitialized (the schema's default).
Init ==
    /\ ADMIN_PASSWORD \in AdminPasswords
    /\ isConnected = FALSE
    /\ dials = 1
    /\ dialFailed = FALSE
    /\ boot = "dialing"
    /\ crashed = FALSE
    /\ now = 0
    /\ Admin \in {<<>>, <<[password |-> <<>>, salt |-> 0, initialized |-> FALSE]>>}
    /\ PresaleEnd = <<>>
    /\ ProgressBar = <<>>
    /\ WalletAddress = <<>>
    /\ issued = NoToken
    /\ reqs = [s \in AllSlots |-> Idle]

\* ------------------------------------------------------------ the routes
Protected == {"getVerifyToken", "postPresaleEnd", "postProgressBar"}

\* Tokens a client may present besides the one it was last issued: one this
\* server signed earlier, which expires at time 1, and one signed with
\* another key.
PresentedTokens ==
    {issued,
     [key |-> JWT_SECRET, iat |-> 1 - ExpiresIn, exp |-> 1],
     [key |-> "forged", iat |-> 0, exp |-> ExpiresIn]}

Headers(route) ==
    IF route \in Protected
    THEN {NoHeader, SchemeOnly} \cup {Bearer(tok) : tok \in PresentedTokens}
    ELSE {NoHeader}

Bodies(route) ==
    CASE route = "postAuthenticate" ->
            {Undefined, Text(Str(0, "p")), Text(Str(MinPasswordLength - 1, "p")),
             Text(Str(MinPasswordLength, "p")), Text(Str(MinPasswordLength, "q"))}
      [] route = "postPresaleEnd" -> {Undefined, Text(<<"x">>), Num(1), Num(2)}
      [] route = "postProgressBar" ->
            {Num(-5), Undefined, Text(<<"x">>), Num(42), Num(150)}
      [] route = "postWalletAddress" ->
            {Undefined, Text(<<"0", "x", "a", "b">>), Text(<<"0", "x", "A", "B">>),
             Text(<<"0", "x", "C", "D">>)}
      [] OTHER -> {Undefined}

\* ------------------------------------------------------------- connectDB
\* if (isConnected) return; the call goes on to mongoose.connect otherwise.
connectDBReturns == isConnected

\* A handler (or initializeAdmin) calls connectDB and awaits it.
CallConnectDB(s, r) ==
    IF connectDBReturns
    THEN /\ reqs' = [reqs EXCEPT ![s] = [r EXCEPT !.pc = "handler"]]
         /\ UNCHANGED dials
    ELSE /\ dials < MaxDials
         /\ dials' = dials + 1
         /\ reqs' = [reqs EXCEPT ![s] = [r EXCEPT !.pc = "connect"]]

\* The module-load connectDB() call: its mongoose.connect resolves.
BootResolve ==
    /\ Alive /\ boot = "dialing"
    /\ boot' = "done"
    /\ isConnected' = TRUE
    /\ UNCHANGED <<ADMIN_PASSWORD, dials, dialFailed, crashed, now, store, issued, reqs>>

\* Its mongoose.connect rejects: nothing catches the rejection, which the
\* runtime either reports or ends the process on.
BootReject ==
    /\ Alive /\ boot = "dialing"
    /\ boot' = "failed"
    /\ dialFailed' = TRUE
    /\ crashed' \in BOOLEAN
    /\ UNCHANGED <<ADMIN_PASSWORD, isConnected, dials, now, store, issued, reqs>>

\* A request's mongoose.connect resolves: isConnected = true, connectDB returns.
DialResolve(s) ==
    /\ Alive /\ reqs[s].pc = "connect"
    /\ isConnected' = TRUE
    /\ reqs' = [reqs EXCEPT ![s].pc = "handler"]
    /\ UNCHANGED <<ADMIN_PASSWORD, dials, dialFailed, boot, crashed, now, store, issued>>

\* A request's mongoose.connect rejects. Every handler awaits connectDB
\* outside its try block, so the handler's promise rejects: the request is
\* left without a response (and the process may end on the unhandled
\* rejection), or the framework's error handler answers 500.
DialReject(s) ==
    /\ Alive /\ reqs[s].pc = "connect"
    /\ dialFailed' = TRUE
    /\ \E outcome \in {"500", "hang", "crash"} :
          /\ crashed' = (outcome = "crash")
          /\ reqs' = [reqs EXCEPT ![s] = Reply(reqs[s], IF outcome = "500" THEN 500 ELSE 0)]
    /\ UNCHANGED <<ADMIN_PASSWORD, isConnected, dials, boot, now, store, issued>>

\* ------------------------------------------------------------- arrival
\* authenticateJWT answers 401 or 403: the handler does not run (and the
\* body is not read).
Reject(s, route, headers) ==
    /\ Alive /\ FreeSlot(s) /\ route \in Protected
    /\ \E hdr \in headers :
          /\ authenticateJWT(hdr, now) # 200
          /\ reqs' = [reqs EXCEPT ![s] =
                [Reply(NewReq(route, hdr, Undefined), authenticateJWT(hdr, now)) EXCEPT !.hdr = hdr]]
    /\ UNCHANGED <<ADMIN_PASSWORD, isConnected, dials, dialFailed, boot, crashed, now,
                   store, issued>>

\* GET /api/verify-token past the guard
VerifyToken(s, headers) ==
    /\ Alive /\ FreeSlot(s)
    /\ \E hdr \in headers :
          /\ authenticateJWT(hdr, now) = 200
          /\ reqs' = [reqs EXCEPT ![s] =
                [Reply(NewReq("getVerifyToken", hdr, Undefined), 200) EXCEPT !.hdr = hdr]]
    /\ UNCHANGED <<ADMIN_PASSWORD, isConnected, dials, dialFailed, boot, crashed, now,
                   store, issued>>

\* A request of another route arrives with one of `bodies`, passes the guard
\* if the route has one, and its handler runs up to its await of connectDB.
Begin(s, route, bodies) ==
    /\ Alive /\ FreeSlot(s) /\ route # "getVerifyToken"
    /\ \E hdr \in Headers(route), body \in bodies :
          /\ route \in Protected => authenticateJWT(hdr, now) = 200
          /\ CallConnectDB(s, NewReq(route, hdr, body))
    /\ UNCHANGED <<ADMIN_PASSWORD, isConnected, dialFailed, boot, crashed, now, store, issued>>

\* The clock
Tick ==
    /\ Alive /\ now < MaxNow
    /\ now' = now + 1
    /\ UNCHANGED <<ADMIN_PASSWORD, isConnected, dials, dialFailed, boot, crashed,
                   store, issued, reqs>>

\* A handler ends: its response is sent and its slot is free again.
Send(s, response) == reqs' = [reqs EXCEPT ![s] = response]

\* -------------------------------------------------------- WalletAddress
LowerChar(c) ==
    CASE c = "A" -> "a" [] c = "B" -> "b" [] c = "C" -> "c"
      [] c = "D" -> "d" [] c = "E" -> "e" [] c = "F" -> "f"
      [] OTHER -> c

\* address.toLowerCase()
ToLowerCase(str) == [i \in 1..Len(str) |-> LowerChar(str[i])]

\* WalletAddress.findOne({ address }): the indices of the matching records
WalletMatches(address) ==
    {i \in 1..Len(WalletAddress) : WalletAddress[i].address = address}

\* POST /api/wallet-address up to the await of findOne
PostWalletFind(s) ==
    LET r == reqs[s]
        lowerAddr == ToLowerCase(r.body.s)
    IN  /\ Alive /\ r.route = "postWalletAddress" /\ r.pc = "handler"
        /\ IF ~Truthy(r.body)
           THEN Send(s, Reply(r, 400))
           ELSE \/ Send(s, Reply(r, 500))
                \/ /\ WalletMatches(lowerAddr) # {}
                   /\ \E i \in WalletMatches(lowerAddr) :
                         Send(s, ReplyData(r, 409, WalletAddress[i].address))
                \/ /\ WalletMatches(lowerAddr) = {}
                   /\ reqs' = [reqs EXCEPT ![s].pc = "write"]
        /\ UNCHANGED <<ADMIN_PASSWORD, isConnected, dials, dialFailed, boot, crashed, now,
                       store, issued>>

\* WalletAddress.create({ address: lowerAddr }) and the response
PostWalletCreate(s) ==
    LET r == reqs[s]
        record == [address |-> ToLowerCase(r.body.s), createdAt |-> now]
    IN  /\ Alive /\ r.route = "postWalletAddress" /\ r.pc = "write"
        /\ \/ /\ WalletAddress' = Append(WalletAddress, record)
              /\ Send(s, ReplyData(r, 200, record.address))
           \/ /\ UNCHANGED WalletAddress
              /\ Send(s, Reply(r, 500))
        /\ UNCHANGED <<ADMIN_PASSWORD, isConnected, dials, dialFailed, boot, crashed, now,
                       Admin, PresaleEnd, ProgressBar, issued>>

\* The orders .sort({ createdAt: -1 }) may return a collection in
NewestFirst(coll) ==
    {order \in [1..Len(coll) -> 1..Len(coll)] :
        /\ \A i, j \in 1..Len(coll) : i # j => order[i] # order[j]
        /\ \A i, j \in 1..Len(coll) :
              i < j => coll[order[i]].createdAt >= coll[order[j]].createdAt}

\* GET /api/wallet-address
GetWallet(s) ==
    LET r == reqs[s]
    IN  /\ Alive /\ r.route = "getWalletAddress" /\ r.pc = "handler"
        /\ \/ \E order \in NewestFirst(WalletAddress) :
                 Send(s, ReplyData(r, 200,
                         [i \in 1..Len(WalletAddress) |-> WalletAddress[order[i]].address]))
           \/ Send(s, Reply(r, 500))
        /\ UNCHANGED <<ADMIN_PASSWORD, isConnected, dials, dialFailed, boot, crashed, now,
                       store, issued>>

\* ------------------------------------------------- PresaleEnd, ProgressBar
\* Model.findOne() with no sort returns a record in natural order, which the
\* store does not promise to be any particular one: any index, 0 for null.
FindOne(coll) == IF Len(coll) = 0 THEN {0} ELSE 1..Len(coll)

\* Model.findOne().sort({ createdAt: -1 }): a record created last
FindNewest(coll) ==
    IF Len(coll) = 0 THEN {0}
    ELSE {i \in 1..Len(coll) : \A j \in 1..Len(coll) : coll[i].createdAt >= coll[j].createdAt}

\* new Date(endDateTime): a number is a date, the text drawn here is not one
\* (Invalid Date), which the schema's Date type refuses to store.
NewDate(v) == [valid |-> v.t = "number", ms |-> v.n]

\* POST /api/presale-end up to the await of findOne
PostPresaleFind(s) ==
    LET r == reqs[s]
    IN  /\ Alive /\ r.route = "postPresaleEnd" /\ r.pc = "handler"
        /\ IF ~Truthy(r.body)
           THEN Send(s, Reply(r, 400))
           ELSE \/ Send(s, Reply(r, 500))
                \/ \E i \in FindOne(PresaleEnd) :
                         reqs' = [reqs EXCEPT ![s].pc = "write", ![s].found = i]
        /\ UNCHANGED <<ADMIN_PASSWORD, isConnected, dials, dialFailed, boot, crashed, now,
                       store, issued>>

\* record.save() on the record found, or PresaleEnd.create, and the response
PostPresaleWrite(s) ==
    LET r == reqs[s]
        date == NewDate(r.body)
    IN  /\ Alive /\ r.route = "postPresaleEnd" /\ r.pc = "write"
        /\ \/ /\ date.valid
              /\ PresaleEnd' =
                    IF r.found # 0
                    THEN [PresaleEnd EXCEPT ![r.found].endDateTime = date.ms]
                    ELSE Append(PresaleEnd, [createdAt |-> now, endDateTime |-> date.ms])
              /\ Send(s, ReplyData(r, 200, date.ms))
           \/ /\ UNCHANGED PresaleEnd
              /\ Send(s, Reply(r, 500))
        /\ UNCHANGED <<ADMIN_PASSWORD, isConnected, dials, dialFailed, boot, crashed, now,
                       Admin, ProgressBar, WalletAddress, issued>>

\* GET /api/presale-end
GetPresale(s) ==
    LET r == reqs[s]
    IN  /\ Alive /\ r.route = "getPresaleEnd" /\ r.pc = "handler"
        /\ \/ \E i \in FindNewest(PresaleEnd) :
                 Send(s, IF i = 0 THEN Reply(r, 200)
                         ELSE ReplyData(r, 200, PresaleEnd[i].endDateTime))
           \/ Send(s, Reply(r, 500))
        /\ UNCHANGED <<ADMIN_PASSWORD, isConnected, dials, dialFailed, boot, crashed, now,
                       store, issued>>

\* JavaScript numbers: an integer or NaN
NaN == [n |-> 0, nan |-> TRUE]
Number(k) == [n |-> k, nan |-> FALSE]

DigitValue(c) ==
    CASE c = "0" -> 0 [] c = "1" -> 1 [] c = "2" -> 2 [] c = "3" -> 3 [] c = "4" -> 4
      [] c = "5" -> 5 [] c = "6" -> 6 [] c = "7" -> 7 [] c = "8" -> 8 [] c = "9" -> 9
      [] OTHER -> -1

RECURSIVE DigitsValue(_)
DigitsValue(str) ==
    IF Len(str) = 0 THEN 0
    ELSE 10 * DigitsValue(SubSeq(str, 1, Len(str) - 1)) + DigitValue(str[Len(str)])

\* Number(value) for a body field: a number is itself, null and "" are 0, a
\* string of digits is its value, anything else is NaN.
ToNumber(v) ==
    CASE v.t = "number" -> Number(v.n)
      [] v.t = "null" -> Number(0)
      [] v.t = "string" ->
            IF \A i \in 1..Len(v.s) : DigitValue(v.s[i]) >= 0
            THEN Number(DigitsValue(v.s)) ELSE NaN
      [] OTHER -> NaN

MathMin(a, b) == IF a.nan \/ b.nan THEN NaN ELSE IF a.n <= b.n THEN a ELSE b
MathMax(a, b) == IF a.nan \/ b.nan THEN NaN ELSE IF a.n >= b.n THEN a ELSE b

\* Clamp without the Math.max
ClampNoFloor(value) == MathMin(ToNumber(value), Number(ClampHigh))

\* value = Math.max(0, Math.min(Number(value), 100))
Clamp(value) == MathMax(Number(ClampLow), MathMin(ToNumber(value), Number(ClampHigh)))

\* POST /api/progress-bar up to the await of findOne
PostProgressFind(s) ==
    LET r == reqs[s]
    IN  /\ Alive /\ r.route = "postProgressBar" /\ r.pc = "handler"
        /\ IF r.body.t = "undefined"
           THEN Send(s, Reply(r, 400))
           ELSE \/ Send(s, Reply(r, 500))
                \/ \E i \in FindOne(ProgressBar) :
                         reqs' = [reqs EXCEPT ![s].pc = "write", ![s].found = i]
        /\ UNCHANGED <<ADMIN_PASSWORD, isConnected, dials, dialFailed, boot, crashed, now,
                       store, issued>>

\* record.save() on the record found, or ProgressBar.create, and the
\* response; the schema's Number type refuses NaN.
PostProgressWrite(s) ==
    LET r == reqs[s]
        value == Clamp(r.body)
    IN  /\ Alive /\ r.route = "postProgressBar" /\ r.pc = "write"
        /\ \/ /\ ~value.nan
              /\ ProgressBar' =
                    IF r.found # 0
                    THEN [ProgressBar EXCEPT ![r.found].value = value.n]
                    ELSE Append(ProgressBar, [createdAt |-> now, value |-> value.n])
              /\ Send(s, ReplyData(r, 200, value.n))
           \/ /\ UNCHANGED ProgressBar
              /\ Send(s, Reply(r, 500))
        /\ UNCHANGED <<ADMIN_PASSWORD, isConnected, dials, dialFailed, boot, crashed, now,
                       Admin, PresaleEnd, WalletAddress, issued>>

\* GET /api/progress-bar
GetProgress(s) ==
    LET r == reqs[s]
    IN  /\ Alive /\ r.route = "getProgressBar" /\ r.pc = "handler"
        /\ \/ \E i \in FindNewest(ProgressBar) :
                 Send(s, IF i = 0 THEN Reply(r, 200)
                         ELSE ReplyData(r, 200, ProgressBar[i].value))
           \/ Send(s, Reply(r, 500))
        /\ UNCHANGED <<ADMIN_PASSWORD, isConnected, dials, dialFailed, boot, crashed, now,
                       store, issued>>

\* ------------------------------------------------------------------ Admin
\* bcrypt.hash(adminPassword, 10): the password under a fresh salt
BcryptHash(password, salt) == [password |-> password, salt |-> salt, initialized |-> TRUE]

\* bcrypt.compare(password, admin.password)
BcryptCompare(password, admin) == admin.salt # 0 /\ admin.password = password

\* AlreadyInitialized with the flag's test inverted
AlreadyInitializedInverted(i) == i # 0 /\ ~Admin[i].initialized

\* if (existingAdmin && existingAdmin.initialized) return;
AlreadyInitialized(i) == i # 0 /\ Admin[i].initialized

\* if (!adminPassword || adminPassword.length < 8)
AdminPasswordRefused == Len(ADMIN_PASSWORD) = 0 \/ Len(ADMIN_PASSWORD) < MinPasswordLength

\* GET /api/init-admin: initializeAdmin up to the await of bcrypt.hash. Every
\* way out of its try block ends in the same response.
InitAdminFind(s) ==
    LET r == [reqs[s] EXCEPT !.lookup = TRUE]
    IN  /\ Alive /\ r.route = "getInitAdmin" /\ r.pc = "handler"
        /\ \/ Send(s, Reply(r, 200))
           \/ \E i \in FindOne(Admin) :
                 IF AlreadyInitialized(i) \/ AdminPasswordRefused
                 THEN Send(s, Reply(r, 200))
                 ELSE reqs' = [reqs EXCEPT ![s] = [r EXCEPT !.pc = "write", !.found = i]]
        /\ UNCHANGED <<ADMIN_PASSWORD, isConnected, dials, dialFailed, boot, crashed, now,
                       store, issued>>

\* existingAdmin.save() or new Admin(...).save(), and the response
InitAdminWrite(s) ==
    LET r == reqs[s]
    IN  /\ Alive /\ r.route = "getInitAdmin" /\ r.pc = "write"
        /\ \/ \E salt \in 1..MaxSalt :
                 Admin' = IF r.found # 0
                          THEN [Admin EXCEPT ![r.found] = BcryptHash(ADMIN_PASSWORD, salt)]
                          ELSE Append(Admin, BcryptHash(ADMIN_PASSWORD, salt))
           \/ UNCHANGED Admin
        /\ Send(s, Reply(r, 200))
        /\ UNCHANGED <<ADMIN_PASSWORD, isConnected, dials, dialFailed, boot, crashed, now,
                       PresaleEnd, ProgressBar, WalletAddress, issued>>

\* if (!password || password.length < 8)
PasswordRefused(password) == ~Truthy(password) \/ Len(password.s) < MinPasswordLength

\* POST /api/authenticate from the return of connectDB on. The token of a
\* 200 response is kept in issued.
PostAuthenticate(s) ==
    LET r == reqs[s]
        looked == [r EXCEPT !.lookup = TRUE]
    IN  /\ Alive /\ r.route = "postAuthenticate" /\ r.pc = "handler"
        /\ IF PasswordRefused(r.body)
           THEN Send(s, Reply(r, 400)) /\ UNCHANGED issued
           ELSE \/ Send(s, Reply(looked, 500)) /\ UNCHANGED issued
                \/ \E i \in FindOne(Admin) :
                      IF i = 0 \/ ~Admin[i].initialized
                      THEN Send(s, Reply(looked, 401)) /\ UNCHANGED issued
                      ELSE IF BcryptCompare(r.body.s, Admin[i])
                      THEN Send(s, Reply(looked, 200)) /\ issued' = SignToken(now)
                      ELSE Send(s, Reply(looked, 401)) /\ UNCHANGED issued
        /\ UNCHANGED <<ADMIN_PASSWORD, isConnected, dials, dialFailed, boot, crashed, now, store>>

\* ------------------------------------------------------- specifications
\* The connection attempts and the clock
Connection(slots) ==
    \/ BootResolve
    \/ BootReject
    \/ \E s \in slots : DialResolve(s)
    \/ \E s \in slots : DialReject(s)
    \/ Tick

\* The routes of the other collections never read ADMIN_PASSWORD or Admin.
InitConfigured ==
    /\ Init
    /\ ADMIN_PASSWORD = Str(MinPasswordLength, "p")
    /\ Admin = <<>>

WalletRoutes == {"postWalletAddress", "getWalletAddress"}

Wallet(slots) ==
    \/ \E s \in slots, route \in WalletRoutes : Begin(s, route, Bodies(route))
    \/ \E s \in slots : PostWalletFind(s)
    \/ \E s \in slots : PostWalletCreate(s)
    \/ \E s \in slots : GetWallet(s)

\* The wallet routes, two requests at once
WalletSpec == InitConfigured /\ [][Connection(RaceSlots) \/ Wallet(RaceSlots)]_vars

PresaleRoutes == {"postPresaleEnd", "getPresaleEnd"}

Presale(slots) ==
    \/ \E s \in slots : Reject(s, "postPresaleEnd", Headers("postPresaleEnd"))
    \/ \E s \in slots, route \in PresaleRoutes : Begin(s, route, Bodies(route))
    \/ \E s \in slots : PostPresaleFind(s)
    \/ \E s \in slots : PostPresaleWrite(s)
    \/ \E s \in slots : GetPresale(s)

ProgressRoutes == {"postProgressBar", "getProgressBar"}

Progress(slots) ==
    \/ \E s \in slots : Reject(s, "postProgressBar", Headers("postProgressBar"))
    \/ \E s \in slots, route \in ProgressRoutes : Begin(s, route, Bodies(route))
    \/ \E s \in slots : PostProgressFind(s)
    \/ \E s \in slots : PostProgressWrite(s)
    \/ \E s \in slots : GetProgress(s)

\* The routes of one singleton collection, two requests at once
PresaleRaceSpec == InitConfigured /\ [][Connection(RaceSlots) \/ Presale(RaceSlots)]_vars
ProgressRaceSpec == InitConfigured /\ [][Connection(RaceSlots) \/ Progress(RaceSlots)]_vars

\* The routes of the progress bar
ProgressSpec == InitConfigured /\ [][Connection(Slots) \/ Progress(Slots)]_vars

\* The two guarded write routes and their reads, each write with one value
GuardBodies(route) ==
    CASE route = "postPresaleEnd" -> {Undefined, Num(1)}
      [] route = "postProgressBar" -> {Undefined, Num(42)}
      [] OTHER -> {Undefined}

Guarded(slots) ==
    \/ \E s \in slots, route \in {"postPresaleEnd", "postProgressBar"} :
          Reject(s, route, Headers(route))
    \/ \E s \in slots, route \in PresaleRoutes \cup ProgressRoutes :
          Begin(s, route, GuardBodies(route))
    \/ \E s \in slots : PostPresaleFind(s)
    \/ \E s \in slots : PostPresaleWrite(s)
    \/ \E s \in slots : GetPresale(s)
    \/ \E s \in slots : PostProgressFind(s)
    \/ \E s \in slots : PostProgressWrite(s)
    \/ \E s \in slots : GetProgress(s)

GuardSpec == InitConfigured /\ [][Connection(Slots) \/ Guarded(Slots)]_vars

AdminRoutes == {"postAuthenticate", "getInitAdmin"}

Bootstrap(slots) ==
    \/ \E s \in slots, route \in AdminRoutes : Begin(s, route, Bodies(route))
    \/ \E s \in slots : InitAdminFind(s)
    \/ \E s \in slots : InitAdminWrite(s)
    \/ \E s \in slots : PostAuthenticate(s)

\* The admin routes, two requests at once
AdminRaceSpec == Init /\ [][Connection(RaceSlots) \/ Bootstrap(RaceSlots)]_vars

NoInitAdminInFlight ==
    \A s \in AllSlots : ~(InFlight(reqs[s]) /\ reqs[s].route = "getInitAdmin")

\* The admin routes with the calls of /api/init-admin made one after another
BootstrapSerial(slots) ==
    \/ \E s \in slots : NoInitAdminInFlight /\ Begin(s, "getInitAdmin", Bodies("getInitAdmin"))
    \/ \E s \in slots : Begin(s, "postAuthenticate", Bodies("postAuthenticate"))
    \/ \E s \in slots : InitAdminFind(s)
    \/ \E s \in slots : InitAdminWrite(s)
    \/ \E s \in slots : PostAuthenticate(s)

BootstrapSpec == Init /\ [][Connection(Slots) \/ BootstrapSerial(Slots)]_vars

\* Tokens over their hour: the store is connected and the admin initialized;
\* tokens are issued up to time MaxNow and the clock then runs, between
\* requests, until the last of them has expired.
TokenHorizon == ExpiresIn + MaxNow + 1

TokenInit ==
    /\ ADMIN_PASSWORD = Str(MinPasswordLength, "p")
    /\ isConnected = TRUE
    /\ dials = 1
    /\ dialFailed = FALSE
    /\ boot = "done"
    /\ crashed = FALSE
    /\ now = 0
    /\ Admin = <<BcryptHash(ADMIN_PASSWORD, 1)>>
    /\ PresaleEnd = <<>>
    /\ ProgressBar = <<>>
    /\ WalletAddress = <<>>
    /\ issued = NoToken
    /\ reqs = [s \in AllSlots |-> Idle]

Elapse ==
    /\ Alive /\ now >= MaxNow /\ now < TokenHorizon
    /\ \A s \in AllSlots : ~InFlight(reqs[s])
    /\ now' = now + 1
    /\ UNCHANGED <<ADMIN_PASSWORD, isConnected, dials, dialFailed, boot, crashed,
                   store, issued, reqs>>

Tokens(slots) ==
    \/ \E s \in slots :
          now <= MaxNow /\ Begin(s, "postAuthenticate", Bodies("postAuthenticate"))
    \/ \E s \in slots : PostAuthenticate(s)
    \/ \E s \in slots : VerifyToken(s, {Bearer(issued)})
    \/ \E s \in slots : Reject(s, "getVerifyToken", {Bearer(issued)})
    \/ Tick
    \/ Elapse

TokenSpec == TokenInit /\ [][Tokens(Slots)]_vars

\* ------------------------------------------------------------ the claims
\* A step in which slot s takes a new request: it was free and now holds
\* another record.
Arrives(s) == ~InFlight(reqs[s]) /\ reqs'[s] # reqs[s]

\* A step in which the handler in slot s ends.
Ends(s) == InFlight(reqs[s]) /\ reqs'[s].pc = "sent"

\* C1: no two WalletAddress records hold the same lowercased address,
\* whatever the interleaving of the POST /api/wallet-address requests.
C1_UniqueAddresses ==
    \A i, j \in 1..Len(WalletAddress) :
        i # j => WalletAddress[i].address # WalletAddress[j].address

\* C2: there is at most one PresaleEnd record and at most one ProgressBar
\* record, whatever the interleaving of the authenticated POSTs.
C2_AtMostOneRecord == Len(PresaleEnd) <= 1 /\ Len(ProgressBar) <= 1

GuardedWrites == {"postPresaleEnd", "postProgressBar"}

\* A header whose bearer token has a valid signature and has not expired at t
TokenPasses(hdr, t) ==
    /\ hdr.parts >= 2
    /\ hdr.token # NoToken
    /\ hdr.token.key = JWT_SECRET
    /\ t < hdr.token.exp

\* C3: a POST /api/presale-end or /api/progress-bar without a token answers
\* 401, with an invalid or expired token 403, and in both cases the store is
\* left unchanged and no handler runs; a handler of these routes runs only
\* for a request whose token passed verification; and PresaleEnd and
\* ProgressBar change only in the write step of such a handler.
C3_GuardedWritesVerified ==
    [][ /\ \A s \in AllSlots :
              (Arrives(s) /\ reqs'[s].route \in GuardedWrites) =>
                  IF TokenPasses(reqs'[s].hdr, now)
                  THEN InFlight(reqs'[s])
                  ELSE /\ reqs'[s].pc = "sent"
                       /\ reqs'[s].status =
                             (IF reqs'[s].hdr.parts < 2 \/ reqs'[s].hdr.token = NoToken
                              THEN 401 ELSE 403)
                       /\ store' = store
        /\ PresaleEnd' # PresaleEnd =>
              \E s \in AllSlots :
                  reqs[s].route = "postPresaleEnd" /\ reqs[s].pc = "write" /\ Ends(s)
        /\ ProgressBar' # ProgressBar =>
              \E s \in AllSlots :
                  reqs[s].route = "postProgressBar" /\ reqs[s].pc = "write" /\ Ends(s)
      ]_vars

\* C3's case: both collections have been written and a request with a token
\* that does not verify has been answered 403.
C3_Witness ==
    /\ Len(PresaleEnd) = 1 /\ Len(ProgressBar) = 1
    /\ \E s \in AllSlots :
          /\ reqs[s].route \in GuardedWrites /\ reqs[s].pc = "sent"
          /\ reqs[s].status = 403 /\ reqs[s].hdr.token.key = JWT_SECRET

C5_InitAdminAlways200 ==
    \A s \in AllSlots :
        (reqs[s].route = "getInitAdmin" /\ reqs[s].pc = "sent") => reqs[s].status = 200

\* C6 as stated: a token issued at time iat is accepted at every time up to
\* iat + 1 hour and rejected with 403 at every time after.
C6_AcceptedThroughTheHour ==
    [][ \A s \in AllSlots :
          (Arrives(s) /\ reqs'[s].route = "getVerifyToken"
                      /\ reqs'[s].hdr.token.key = JWT_SECRET) =>
              LET iat == reqs'[s].hdr.token.iat
              IN  /\ (iat <= now /\ now <= iat + 3600) => reqs'[s].status = 200
                  /\ now > iat + 3600 => reqs'[s].status = 403
      ]_vars

\* C6 amended: in whole seconds, a token issued at time iat is accepted at
\* every time from iat up to but not including iat + 3600, and rejected with
\* 403 from iat + 3600 on; the answer depends on the token and the time alone.
C6_AcceptedWithinTheHour ==
    [][ \A s \in AllSlots :
          (Arrives(s) /\ reqs'[s].route = "getVerifyToken"
                      /\ reqs'[s].hdr.token.key = JWT_SECRET) =>
              LET iat == reqs'[s].hdr.token.iat
              IN  /\ (iat <= now /\ now < iat + 3600) => reqs'[s].status = 200
                  /\ now >= iat + 3600 => reqs'[s].status = 403
      ]_vars

\* C6's case: a token this server issued has been rejected with 403 once its
\* hour had passed, and another accepted.
C6_Witness ==
    /\ now >= 3600
    /\ \E s \in AllSlots :
          /\ reqs[s].route = "getVerifyToken" /\ reqs[s].pc = "sent"
          /\ reqs[s].status = 403
          /\ reqs[s].hdr.token = issued /\ issued.key = JWT_SECRET

\* C7: a POST /api/authenticate whose password is a string of fewer than 8
\* characters answers 400 without calling Admin.findOne, a failing
\* connection attempt included.
C7_ShortPassword400 ==
    [][ \A s \in AllSlots :
          (/\ reqs[s].route = "postAuthenticate" /\ Ends(s)
           /\ reqs[s].body.t = "string" /\ Len(reqs[s].body.s) < 8) =>
              reqs'[s].status = 400 /\ ~reqs'[s].lookup
      ]_vars

\* C8: provided no dial fails, mongoose.connect is invoked at most once.
C8_DialsOnce == ~dialFailed => dials <= 1

\* C9: every ProgressBar record has a value in [0,100], and an authenticated
\* POST /api/progress-bar of a number v that is answered 200 stores, and
\* returns, max(0, min(v, 100)).
C9_ValueClamped ==
    /\ [](\A i \in 1..Len(ProgressBar) :
            ProgressBar[i].value >= 0 /\ ProgressBar[i].value <= 100)
    /\ [][ \A s \in AllSlots :
             (/\ reqs[s].route = "postProgressBar" /\ Ends(s)
              /\ reqs[s].body.t = "number" /\ reqs'[s].status = 200) =>
                 LET v == reqs[s].body.n
                     clamped == IF v < 0 THEN 0 ELSE IF v > 100 THEN 100 ELSE v
                     i == IF reqs[s].found # 0 THEN reqs[s].found ELSE Len(ProgressBar')
                 IN  /\ Len(ProgressBar') >= 1
                     /\ ProgressBar'[i].value = clamped
                     /\ reqs'[s].has /\ reqs'[s].data = clamped
         ]_vars

\* C9's case: a POST of 150 has stored and returned 100.
C9_Witness ==
    /\ Len(ProgressBar) = 1 /\ ProgressBar[1].value = 100
    /\ \E s \in AllSlots :
          /\ reqs[s].route = "postProgressBar" /\ reqs[s].pc = "sent"
          /\ reqs[s].status = 200 /\ reqs[s].data = 100

\* C10: once a POST to a singleton resource has answered 200 for a value, a
\* GET of that resource (before any other write) returns that value: every
\* record findOne().sort({ createdAt: -1 }) may select holds it.
C10_ReadYourWrites ==
    [][ \A s \in AllSlots :
          /\ (reqs[s].route = "postProgressBar" /\ Ends(s) /\ reqs'[s].status = 200) =>
                \A i \in FindNewest(ProgressBar') : ProgressBar'[i].value = reqs'[s].data
          /\ (reqs[s].route = "postPresaleEnd" /\ Ends(s) /\ reqs'[s].status = 200) =>
                \A i \in FindNewest(PresaleEnd') : PresaleEnd'[i].endDateTime = reqs'[s].data
      ]_vars

====
